---- MODULE Spec2Model ----
(***************************************************************************)
(* Model of the GDI+ text source of plugins/obs-text/gdiplus/obs-text.cpp: *)
(* struct TextSource (Update, UpdateFont, CalculateTextSizes, RenderText,  *)
(* Render, ~TextSource) and the helpers get_alpha_val, rgb_to_bgr and      *)
(* to_wide.                                                                *)
(*                                                                         *)
(* Floats (RectF members, outline_size) are fixed-point integers counted   *)
(* in 1/Unit of a pixel; LONG / int / uint32_t values keep 32 bits.        *)
(* Fields of TextSource that no modelled statement reads (bk_color,        *)
(* bk_opacity, align, valign, bold, italic, underline, strikeout, file,    *)
(* read_from_file, outline_color, outline_opacity, hdc, graphics) are left *)
(* out of the state.                                                       *)
(***************************************************************************)
EXTENDS Integers, Sequences, FiniteSets, TLC

VARIABLES
    (* fields of TextSource *)
    text, tex, cx, cy, hfont, font, face, face_size, color, opacity,
    vertical, use_outline, outline_size,
    use_extents, wrap, extents_cx, extents_cy,
    (* locals of the Update / RenderText call in flight *)
    pc, content, box, measured, presize, size, brush,
    (* the host: graphics context and texture store *)
    gfx, textures,
    (* observations *)
    gfxOps, glyphsDrawn, derefNull, lastRender,
    prevTex, prevCx, prevCy, createFailed, updated

vars == <<text, tex, cx, cy, hfont, font, face, face_size, color, opacity,
          vertical, use_outline, outline_size,
          use_extents, wrap, extents_cx, extents_cy,
          pc, content, box, measured, presize, size, brush,
          gfx, textures,
          gfxOps, glyphsDrawn, derefNull, lastRender,
          prevTex, prevCx, prevCy, createFailed, updated>>

(***************************************************************************)
(* Program constants                                                       *)
(***************************************************************************)
MIN_SIZE_CX == 32
MIN_SIZE_CY == 32
MAX_SIZE_CX == 8192
MAX_SIZE_CY == 8192

\* fixed-point scale of the float model: EPSILON (graphics/math-defs.h,
\* 1.0e-4f) is one unit
Unit == 10000
EPSILON == 1

\* the opacity slider's maximum (obs_properties_add_int_slider 0..100)
MaxOpacity == 100

\* '\n'
NEWLINE == 10

(***************************************************************************)
(* Bounds and input sets                                                   *)
(***************************************************************************)
\* number of distinct texture handles the host can hand out
MaxHandles == 2

Null == 0
Handles == 1..MaxHandles

NoFont == "null"
ARIAL == "Arial"

\* UTF-8 contents (typed text or file contents): "", "a", "\xC3\xA9\n"
Contents == { <<>>, <<97>>, <<195, 169, 10>> }
Faces == {"", "Consolas"}
FaceSizes == {-7, 33, 9001}
OutlineSizes == {3}
Colors == {1193046}
Opacities == {50}
\* the uint32_t extents as the LONG their 32 bits are read as (every use in
\* the sizing rule is LONG(extents) or an assignment to a LONG):
\* -1 is 0xFFFFFFFF
ExtentsValues == {-1, 0, 50, 101}
\* what MeasureString can report for a non-empty text (Width, Height)
MeasuredBoxes == { [Width |-> 105000,   Height |-> 122500],
                   [Width |-> 90000000, Height |-> 410000] }

ZeroBox == [Width |-> 0, Height |-> 0]
ZeroSize == [cx |-> 0, cy |-> 0]
NoTexture == [live |-> FALSE, w |-> 0, h |-> 0]
NoRender == [kind |-> "none", tex |-> Null, cx |-> 0, cy |-> 0]

(***************************************************************************)
(* Integer helpers: C semantics                                            *)
(***************************************************************************)
\* the ends of a signed 32-bit LONG / int
LONG_MAX == 2147483647
LONG_MIN == -2147483647 - 1

\* C's % with a positive divisor: the remainder has the dividend's sign
CRem(v, d) == IF v >= 0 THEN v % d ELSE -((-v) % d)

\* LONG(f) of a float in fixed point: truncation toward zero
ToLONG(f) == IF f >= 0 THEN f \div Unit ELSE -((-f) \div Unit)

(***************************************************************************)
(* get_alpha_val, calc_color, rgb_to_bgr, to_wide                          *)
(***************************************************************************)
\* A 32-bit colour word (DWORD) is the record of its top byte and its low
\* 24 bits: [hi, lo] stands for hi << 24 | lo.
DWORD(hi, lo) == [hi |-> hi, lo |-> lo]

\* a | b of two colour words whose set bits do not overlap
BitOr(a, b) == DWORD(a.hi + b.hi, a.lo + b.lo)

get_alpha_val_scale256(o) == DWORD(((o * 256) \div 100) % 256, 0)

\* lines 85-88: ((opacity * 255 / 100) & 0xFF) << 24.  opacity * 255 does
\* not wrap for the opacities modelled (the slider's 0..100).
get_alpha_val(o) == DWORD(((o * 255) \div 100) % 256, 0)

rgb_to_bgr(rgb) ==
    ((rgb % 256) * 65536) + (((rgb \div 256) % 256) * 256)
        + ((rgb \div 65536) % 256)

\* os_utf8_to_wcs as to_wide uses it: one wide character per UTF-8 sequence
RECURSIVE utf8_to_wcs(_)
utf8_to_wcs(s) ==
    IF s = <<>> THEN <<>>
    ELSE IF Head(s) < 128 THEN <<Head(s)>> \o utf8_to_wcs(Tail(s))
    ELSE IF Head(s) \in 192..223 /\ Len(s) >= 2
         THEN <<((Head(s) % 32) * 64) + (s[2] % 64)>>
                  \o utf8_to_wcs(SubSeq(s, 3, Len(s)))
    ELSE utf8_to_wcs(Tail(s))

to_wide(utf8) == utf8_to_wcs(utf8)

push_back(w, c) == Append(w, c)
pop_back(w) == SubSeq(w, 1, Len(w) - 1)

StripTrailingNewline(w) ==
    IF w # <<>> /\ w[Len(w)] = NEWLINE THEN pop_back(w) ELSE w

\* Update, lines 532-535: push_back('\n') followed by pop_back()
NormalizeText(w) == IF w # <<>> THEN pop_back(push_back(w, NEWLINE)) ELSE w

(***************************************************************************)
(* UpdateFont                                                              *)
(***************************************************************************)
\* CreateFontIndirect: the handle of a font of that face, or no handle
CreateFontIndirect(name, ok) == IF ok THEN name ELSE NoFont

\* lines 228-249: hfont after the requested face and the "Arial" fallback
UpdateFont(f, face_ok, arial_ok) ==
    LET first == IF f # "" THEN CreateFontIndirect(f, face_ok) ELSE NoFont
    IN  IF first = NoFont THEN CreateFontIndirect(ARIAL, arial_ok) ELSE first

\* lines 251-252: font is reset, and constructed only over a handle
FontOf(h) == IF h # NoFont THEN h ELSE NoFont

(***************************************************************************)
(* CalculateTextSizes                                                      *)
(***************************************************************************)
\* what MeasureString can write into bounding_box: nothing (the box keeps
\* its zero value) when it is not called or is handed no font
MeasureString ==
    IF text = <<>> \/ font = NoFont THEN {ZeroBox} ELSE MeasuredBoxes

\* lines 314-345: bounding_box after the measurement, m being what
\* MeasureString wrote
MeasureBox(m) ==
    IF text = <<>> THEN ZeroBox
    ELSE IF use_extents /\ wrap THEN m
    ELSE [Width  |-> m.Width  + (IF use_outline THEN outline_size * Unit ELSE 0),
          Height |-> m.Height + (IF use_outline THEN outline_size * Unit ELSE 0)]

\* lines 347-365: the floor at face_size on the thickness axis; the box and
\* text_size after it
FloorSize(b) ==
    IF vertical
    THEN IF b.Width < face_size * Unit
         THEN [box |-> [Width |-> face_size * Unit, Height |-> b.Height],
               ts  |-> [cx |-> face_size, cy |-> ToLONG(b.Height + EPSILON)]]
         ELSE [box |-> b,
               ts  |-> [cx |-> ToLONG(b.Width + EPSILON),
                        cy |-> ToLONG(b.Height + EPSILON)]]
    ELSE IF b.Height < face_size * Unit
         THEN [box |-> [Width |-> b.Width, Height |-> face_size * Unit],
               ts  |-> [cx |-> ToLONG(b.Width + EPSILON), cy |-> face_size]]
         ELSE [box |-> b,
               ts  |-> [cx |-> ToLONG(b.Width + EPSILON),
                        cy |-> ToLONG(b.Height + EPSILON)]]

ExtentsAdjust_WrapMax(ts) ==
    IF use_extents
    THEN IF wrap
         THEN [cx |-> IF extents_cx > ts.cx THEN extents_cx ELSE ts.cx,
               cy |-> IF extents_cy > ts.cy THEN extents_cy ELSE ts.cy]
         ELSE IF extents_cx > ts.cx
              THEN [cx |-> extents_cx, cy |-> ts.cy]
              ELSE IF extents_cy > ts.cy
                   THEN [cx |-> ts.cx, cy |-> extents_cy]
                   ELSE ts
    ELSE ts

ExtentsAdjust_PerAxisMax(ts) ==
    IF use_extents
    THEN IF wrap
         THEN [cx |-> extents_cx, cy |-> extents_cy]
         ELSE [cx |-> IF extents_cx > ts.cx THEN extents_cx ELSE ts.cx,
               cy |-> IF extents_cy > ts.cy THEN extents_cy ELSE ts.cy]
    ELSE ts

\* lines 367-377: text_size after the extents rule
ExtentsAdjust(ts) ==
    IF use_extents
    THEN IF wrap
         THEN [cx |-> extents_cx, cy |-> extents_cy]
         ELSE IF extents_cx > ts.cx
              THEN [cx |-> extents_cx, cy |-> ts.cy]
              ELSE IF extents_cy > ts.cy
                   THEN [cx |-> ts.cx, cy |-> extents_cy]
                   ELSE ts
    ELSE ts

\* lines 379-380: text_size.cx += text_size.cx % 2
Quantize(v) == IF v = LONG_MAX THEN LONG_MIN ELSE v + CRem(v, 2)

clamp_min_only(val, min_val, max_val) == IF val < min_val THEN min_val ELSE val

\* lines 75-77: the clamp macro
clamp(val, min_val, max_val) ==
    IF val < min_val THEN min_val
    ELSE IF val > max_val THEN max_val
    ELSE val

\* lines 379-383
FinalSize(ts) ==
    [cx |-> clamp(Quantize(ts.cx), MIN_SIZE_CX, MAX_SIZE_CX),
     cy |-> clamp(Quantize(ts.cy), MIN_SIZE_CY, MAX_SIZE_CY)]

(***************************************************************************)
(* The host's graphics context and texture calls                           *)
(***************************************************************************)
obs_enter_graphics(g) == "held"

obs_leave_graphics_missing(g) == g

obs_leave_graphics(g) == "free"

\* one texture call as the host sees it: which call, on which handle,
\* whether the caller holds the graphics context, and whether the handle
\* names a live texture when the call is made
Op(o, h) == [op |-> o, h |-> h, held |-> gfx = "held",
             live |-> h # Null /\ textures[h].live]

\* what gs_texture_create can return: a handle that is not live, or NULL
gs_texture_create == {Null} \cup {h \in Handles : ~textures[h].live}

RecreateOnWidthOnly(t, ocx, ocy, s) == t = Null \/ ocx # s.cx

\* line 461: the texture is (re)created
NeedsRecreate(t, ocx, ocy, s) == t = Null \/ ocx # s.cx \/ ocy # s.cy

KeepOldOnFailure(old, h) == IF h = Null THEN old ELSE h

\* line 467: tex after the assignment of gs_texture_create's result
AssignTex(old, h) == h

(***************************************************************************)
(* Initial state: a constructed TextSource (the member initialisers of     *)
(* lines 156-194), no Update run yet                                       *)
(***************************************************************************)
NoCall ==
    /\ content = <<>>
    /\ box = ZeroBox
    /\ measured = ZeroSize
    /\ presize = ZeroSize
    /\ size = ZeroSize
    /\ brush = DWORD(0, 0)
    /\ gfxOps = <<>>
    /\ glyphsDrawn = FALSE
    /\ derefNull = FALSE
    /\ prevTex = Null
    /\ prevCx = 0
    /\ prevCy = 0

Init ==
    /\ text = <<>>
    /\ tex = Null
    /\ cx = 0
    /\ cy = 0
    /\ hfont = NoFont
    /\ font = NoFont
    /\ face = ""
    /\ face_size = 0
    /\ color = 16777215
    /\ opacity = 100
    /\ vertical = FALSE
    /\ use_outline = FALSE
    /\ outline_size = 0
    /\ use_extents = FALSE
    /\ wrap = FALSE
    /\ extents_cx = 0
    /\ extents_cy = 0
    /\ pc = "idle"
    /\ NoCall
    /\ gfx = "free"
    /\ textures = [h \in Handles |-> NoTexture]
    /\ lastRender = NoRender
    /\ createFailed = FALSE
    /\ updated = FALSE

(***************************************************************************)
(* Update, lines 484-558: the settings are read and stored, the font is    *)
(* resolved; RenderText follows                                            *)
(***************************************************************************)
Update ==
    /\ pc = "idle"
    /\ \E new_text \in Contents, font_face \in Faces, font_size \in FaceSizes,
          new_color \in Colors, new_opacity \in Opacities,
          new_vertical \in BOOLEAN, new_outline \in BOOLEAN,
          new_o_size \in OutlineSizes,
          face_ok \in BOOLEAN, arial_ok \in BOOLEAN :
        /\ content' = new_text
        /\ face' = font_face
        /\ face_size' = font_size
        /\ color' = rgb_to_bgr(new_color)
        /\ opacity' = new_opacity
        /\ vertical' = new_vertical
        /\ text' = NormalizeText(to_wide(new_text))
        /\ use_outline' = new_outline
        /\ outline_size' = new_o_size
        /\ hfont' = UpdateFont(font_face, face_ok, arial_ok)
        /\ font' = FontOf(hfont')
    /\ prevTex' = tex
    /\ prevCx' = cx
    /\ prevCy' = cy
    /\ pc' = "calc"
    /\ lastRender' = NoRender
    /\ UNCHANGED <<tex, cx, cy, use_extents, wrap, extents_cx, extents_cy,
                   box, measured, presize, size, brush, gfx, textures,
                   gfxOps, glyphsDrawn, derefNull, createFailed, updated>>

(***************************************************************************)
(* RenderText, line 408: CalculateTextSizes (lines 308-384)                *)
(***************************************************************************)
CalculateTextSizes ==
    /\ pc = "calc"
    /\ \E m \in MeasureString :
        LET floored == FloorSize(MeasureBox(m))
            adjusted == ExtentsAdjust(floored.ts)
        IN  /\ box' = floored.box
            /\ measured' = floored.ts
            /\ presize' = adjusted
            /\ size' = FinalSize(adjusted)
    /\ pc' = "draw"
    /\ lastRender' = NoRender
    /\ UNCHANGED <<text, tex, cx, cy, hfont, font, face, face_size, color,
                   opacity, vertical, use_outline, outline_size,
                   use_extents, wrap, extents_cx, extents_cy,
                   content, brush, gfx, textures, gfxOps, glyphsDrawn,
                   derefNull, prevTex, prevCx, prevCy, createFailed, updated>>

(***************************************************************************)
(* RenderText, lines 410-459: the bitmap, the brush, the background and    *)
(* the glyphs.  font->GetFamily (line 446) on an unresolved font is a call *)
(* through a null pointer: the process dies or goes on with garbage.       *)
(***************************************************************************)
GetFamilyOutcomes ==
    IF text # <<>> /\ use_outline /\ font = NoFont
    THEN {"crash", "garbage"}
    ELSE {"ok"}

RenderTextDraw ==
    /\ pc = "draw"
    /\ brush' = BitOr(get_alpha_val(opacity), DWORD(0, color % 16777216))
    /\ \E outcome \in GetFamilyOutcomes :
        /\ derefNull' = (outcome # "ok")
        /\ glyphsDrawn' = (text # <<>> /\ font # NoFont)
        /\ pc' = IF outcome = "crash" THEN "crashed" ELSE "sync"
    /\ lastRender' = NoRender
    /\ UNCHANGED <<text, tex, cx, cy, hfont, font, face, face_size, color,
                   opacity, vertical, use_outline, outline_size,
                   use_extents, wrap, extents_cx, extents_cy,
                   content, box, measured, presize, size, gfx, textures,
                   gfxOps, prevTex, prevCx, prevCy, createFailed, updated>>

(***************************************************************************)
(* RenderText, lines 461-479: the texture is recreated or updated in place *)
(***************************************************************************)
\* lines 461-462 and 475-476: the branch is chosen and the context entered
RenderTextSync ==
    /\ pc = "sync"
    /\ gfx' = IF NeedsRecreate(tex, cx, cy, size) \/ tex # Null
              THEN obs_enter_graphics(gfx) ELSE gfx
    /\ pc' = IF NeedsRecreate(tex, cx, cy, size) THEN "destroy"
             ELSE IF tex # Null THEN "set_image"
             ELSE "return"
    /\ lastRender' = NoRender
    /\ UNCHANGED <<text, tex, cx, cy, hfont, font, face, face_size, color,
                   opacity, vertical, use_outline, outline_size,
                   use_extents, wrap, extents_cx, extents_cy,
                   content, box, measured, presize, size, brush, textures,
                   gfxOps, glyphsDrawn, derefNull, prevTex, prevCx, prevCy,
                   createFailed, updated>>

DestroysOldNever(t) == FALSE

\* line 463: if (tex), the old texture is destroyed before the new one is
\* created
DestroysOld(t) == t # Null

\* lines 463-464: if (tex) gs_texture_destroy(tex)
TextureDestroy ==
    /\ pc = "destroy"
    /\ textures' = IF DestroysOld(tex)
                   THEN [textures EXCEPT ![tex] = NoTexture]
                   ELSE textures
    /\ gfxOps' = IF DestroysOld(tex) THEN Append(gfxOps, Op("destroy", tex))
                 ELSE gfxOps
    /\ pc' = "create"
    /\ lastRender' = NoRender
    /\ UNCHANGED <<text, tex, cx, cy, hfont, font, face, face_size, color,
                   opacity, vertical, use_outline, outline_size,
                   use_extents, wrap, extents_cx, extents_cy,
                   content, box, measured, presize, size, brush, gfx,
                   glyphsDrawn, derefNull, prevTex, prevCx, prevCy,
                   createFailed, updated>>

\* lines 466-468: tex = gs_texture_create(size.cx, size.cy, ...)
TextureCreate ==
    /\ pc = "create"
    /\ \E h \in gs_texture_create :
        /\ tex' = AssignTex(tex, h)
        /\ textures' = IF h # Null
                       THEN [textures EXCEPT
                                ![h] = [live |-> TRUE, w |-> size.cx, h |-> size.cy]]
                       ELSE textures
        /\ gfxOps' = Append(gfxOps, Op("create", h))
        /\ createFailed' = (h = Null)
    /\ pc' = "leave_create"
    /\ lastRender' = NoRender
    /\ UNCHANGED <<text, cx, cy, hfont, font, face, face_size, color,
                   opacity, vertical, use_outline, outline_size,
                   use_extents, wrap, extents_cx, extents_cy,
                   content, box, measured, presize, size, brush, gfx,
                   glyphsDrawn, derefNull, prevTex, prevCx, prevCy, updated>>

\* line 477: gs_texture_set_image(tex, ...)
TextureSetImage ==
    /\ pc = "set_image"
    /\ gfxOps' = Append(gfxOps, Op("update", tex))
    /\ pc' = "leave_image"
    /\ lastRender' = NoRender
    /\ UNCHANGED <<text, tex, cx, cy, hfont, font, face, face_size, color,
                   opacity, vertical, use_outline, outline_size,
                   use_extents, wrap, extents_cx, extents_cy,
                   content, box, measured, presize, size, brush, gfx, textures,
                   glyphsDrawn, derefNull, prevTex, prevCx, prevCy,
                   createFailed, updated>>

\* lines 470 and 478: obs_leave_graphics()
LeaveGraphics ==
    /\ pc \in {"leave_create", "leave_image"}
    /\ gfx' = obs_leave_graphics(gfx)
    /\ pc' = IF pc = "leave_create" THEN "set_cx" ELSE "return"
    /\ lastRender' = NoRender
    /\ UNCHANGED <<text, tex, cx, cy, hfont, font, face, face_size, color,
                   opacity, vertical, use_outline, outline_size,
                   use_extents, wrap, extents_cx, extents_cy,
                   content, box, measured, presize, size, brush, textures,
                   gfxOps, glyphsDrawn, derefNull, prevTex, prevCx, prevCy,
                   createFailed, updated>>

\* line 472: cx = (uint32_t)size.cx
SetCx ==
    /\ pc = "set_cx"
    /\ cx' = size.cx
    /\ pc' = "set_cy"
    /\ lastRender' = NoRender
    /\ UNCHANGED <<text, tex, cy, hfont, font, face, face_size, color,
                   opacity, vertical, use_outline, outline_size,
                   use_extents, wrap, extents_cx, extents_cy,
                   content, box, measured, presize, size, brush, gfx, textures,
                   gfxOps, glyphsDrawn, derefNull, prevTex, prevCx, prevCy,
                   createFailed, updated>>

\* line 473: cy = (uint32_t)size.cy
SetCy ==
    /\ pc = "set_cy"
    /\ cy' = size.cy
    /\ pc' = "return"
    /\ lastRender' = NoRender
    /\ UNCHANGED <<text, tex, cx, hfont, font, face, face_size, color,
                   opacity, vertical, use_outline, outline_size,
                   use_extents, wrap, extents_cx, extents_cy,
                   content, box, measured, presize, size, brush, gfx, textures,
                   gfxOps, glyphsDrawn, derefNull, prevTex, prevCx, prevCy,
                   createFailed, updated>>

\* lines 480 and 563-564: RenderText and Update return; their locals end
UpdateReturn ==
    /\ pc = "return"
    /\ pc' = "idle"
    /\ updated' = TRUE
    /\ content' = <<>>
    /\ box' = ZeroBox
    /\ measured' = ZeroSize
    /\ presize' = ZeroSize
    /\ size' = ZeroSize
    /\ brush' = DWORD(0, 0)
    /\ gfxOps' = <<>>
    /\ glyphsDrawn' = FALSE
    /\ derefNull' = FALSE
    /\ prevTex' = Null
    /\ prevCx' = 0
    /\ prevCy' = 0
    /\ lastRender' = NoRender
    /\ UNCHANGED <<text, tex, cx, cy, hfont, font, face, face_size, color,
                   opacity, vertical, use_outline, outline_size,
                   use_extents, wrap, extents_cx, extents_cy,
                   gfx, textures, createFailed>>

(***************************************************************************)
(* Render, lines 566-574.  The host's render loop calls it from inside its *)
(* own graphics-context scope, so it runs only while Update or the         *)
(* destructor do not hold the context, and at any other point of them.     *)
(***************************************************************************)
Render ==
    /\ pc \notin {"dtor_destroy", "dtor_leave", "destroyed", "crashed"}
    /\ gfx = "free"
    /\ lastRender' = IF tex = Null
                     THEN [kind |-> "noop", tex |-> Null, cx |-> 0, cy |-> 0]
                     ELSE [kind |-> "draw", tex |-> tex, cx |-> cx, cy |-> cy]
    /\ UNCHANGED <<text, tex, cx, cy, hfont, font, face, face_size, color,
                   opacity, vertical, use_outline, outline_size,
                   use_extents, wrap, extents_cx, extents_cy,
                   pc, content, box, measured, presize, size, brush,
                   gfx, textures, gfxOps, glyphsDrawn, derefNull,
                   prevTex, prevCx, prevCy, createFailed, updated>>

(***************************************************************************)
(* ~TextSource, lines 206-213                                              *)
(***************************************************************************)
\* lines 208-209
DestructorEnter ==
    /\ pc = "idle"
    /\ gfx' = IF tex # Null THEN obs_enter_graphics(gfx) ELSE gfx
    /\ pc' = IF tex # Null THEN "dtor_destroy" ELSE "destroyed"
    /\ lastRender' = NoRender
    /\ UNCHANGED <<text, tex, cx, cy, hfont, font, face, face_size, color,
                   opacity, vertical, use_outline, outline_size,
                   use_extents, wrap, extents_cx, extents_cy,
                   content, box, measured, presize, size, brush, textures,
                   gfxOps, glyphsDrawn, derefNull, prevTex, prevCx, prevCy,
                   createFailed, updated>>

\* line 210
DestructorDestroy ==
    /\ pc = "dtor_destroy"
    /\ textures' = [textures EXCEPT ![tex] = NoTexture]
    /\ gfxOps' = Append(gfxOps, Op("destroy", tex))
    /\ pc' = "dtor_leave"
    /\ lastRender' = NoRender
    /\ UNCHANGED <<text, tex, cx, cy, hfont, font, face, face_size, color,
                   opacity, vertical, use_outline, outline_size,
                   use_extents, wrap, extents_cx, extents_cy,
                   content, box, measured, presize, size, brush, gfx,
                   glyphsDrawn, derefNull, prevTex, prevCx, prevCy,
                   createFailed, updated>>

\* line 211
DestructorLeave ==
    /\ pc = "dtor_leave"
    /\ gfx' = obs_leave_graphics(gfx)
    /\ pc' = "destroyed"
    /\ lastRender' = NoRender
    /\ UNCHANGED <<text, tex, cx, cy, hfont, font, face, face_size, color,
                   opacity, vertical, use_outline, outline_size,
                   use_extents, wrap, extents_cx, extents_cy,
                   content, box, measured, presize, size, brush, textures,
                   gfxOps, glyphsDrawn, derefNull, prevTex, prevCx, prevCy,
                   createFailed, updated>>

Next ==
    \/ Update
    \/ CalculateTextSizes
    \/ RenderTextDraw
    \/ RenderTextSync
    \/ TextureDestroy
    \/ TextureCreate
    \/ TextureSetImage
    \/ LeaveGraphics
    \/ SetCx
    \/ SetCy
    \/ UpdateReturn
    \/ Render
    \/ DestructorEnter
    \/ DestructorDestroy
    \/ DestructorLeave

Spec == Init /\ [][Next]_vars

(***************************************************************************)
(* CalculateTextSizes as a function of the instance's fields: every        *)
(* combination of the fields it reads, the extents fields included (no     *)
(* statement of Update writes use_extents, wrap, extents_cx or extents_cy, *)
(* so Spec alone never leaves their defaults), at the point RenderText     *)
(* calls it.                                                               *)
(***************************************************************************)
InitCalc ==
    /\ \E c \in Contents :
        /\ content = c
        /\ text = NormalizeText(to_wide(c))
    /\ tex = Null
    /\ cx = 0
    /\ cy = 0
    /\ face \in Faces
    /\ \E face_ok \in BOOLEAN, arial_ok \in BOOLEAN :
        hfont = UpdateFont(face, face_ok, arial_ok)
    /\ font = FontOf(hfont)
    /\ face_size \in FaceSizes
    /\ \E c \in Colors : color = rgb_to_bgr(c)
    /\ opacity \in Opacities
    /\ vertical \in BOOLEAN
    /\ use_outline \in BOOLEAN
    /\ outline_size \in OutlineSizes
    /\ use_extents \in BOOLEAN
    /\ wrap \in BOOLEAN
    /\ extents_cx \in ExtentsValues
    /\ extents_cy \in ExtentsValues
    /\ pc = "calc"
    /\ box = ZeroBox
    /\ measured = ZeroSize
    /\ presize = ZeroSize
    /\ size = ZeroSize
    /\ brush = DWORD(0, 0)
    /\ gfxOps = <<>>
    /\ glyphsDrawn = FALSE
    /\ derefNull = FALSE
    /\ prevTex = Null
    /\ prevCx = 0
    /\ prevCy = 0
    /\ gfx = "free"
    /\ textures = [h \in Handles |-> NoTexture]
    /\ lastRender = NoRender
    /\ createFailed = FALSE
    /\ updated = FALSE

NextCalc == CalculateTextSizes

SpecCalc == InitCalc /\ [][NextCalc]_vars

(***************************************************************************)
(* The brush colour of RenderText (line 415) for every opacity of the      *)
(* slider: a first Update with an empty text, a resolved "Arial" and       *)
(* opacity o, at the point where RenderText builds the brush.              *)
(***************************************************************************)
InitAlpha ==
    /\ content = <<>>
    /\ text = <<>>
    /\ tex = Null
    /\ cx = 0
    /\ cy = 0
    /\ face = ""
    /\ hfont = ARIAL
    /\ font = ARIAL
    /\ face_size \in FaceSizes
    /\ \E c \in Colors : color = rgb_to_bgr(c)
    /\ opacity \in 0..MaxOpacity
    /\ vertical = FALSE
    /\ use_outline = FALSE
    /\ outline_size \in OutlineSizes
    /\ use_extents = FALSE
    /\ wrap = FALSE
    /\ extents_cx = 0
    /\ extents_cy = 0
    /\ pc = "draw"
    /\ box = FloorSize(ZeroBox).box
    /\ measured = FloorSize(ZeroBox).ts
    /\ presize = measured
    /\ size = FinalSize(presize)
    /\ brush = DWORD(0, 0)
    /\ gfxOps = <<>>
    /\ glyphsDrawn = FALSE
    /\ derefNull = FALSE
    /\ prevTex = Null
    /\ prevCx = 0
    /\ prevCy = 0
    /\ gfx = "free"
    /\ textures = [h \in Handles |-> NoTexture]
    /\ lastRender = NoRender
    /\ createFailed = FALSE
    /\ updated = FALSE

NextAlpha == RenderTextDraw

SpecAlpha == InitAlpha /\ [][NextAlpha]_vars

(***************************************************************************)
(* Properties                                                              *)
(***************************************************************************)
\* points of an Update at which CalculateTextSizes has returned
SizeComputed ==
    pc \in {"draw", "sync", "destroy", "create", "set_image", "leave_create",
            "leave_image", "set_cx", "set_cy", "return", "crashed"}

\* points inside an Update call, after the settings were stored
InUpdate == pc = "calc" \/ SizeComputed

EvenInRange(v, lo, hi) == v % 2 = 0 /\ lo <= v /\ v <= hi

\* C1: once CalculateTextSizes has run, the canvas size it computed has an
\* even width and height, each within [32, 8192]; when Update is about to
\* return, cx/cy hold that size, and after the first Update cx/cy are always
\* even and within [32, 8192].
C1_CanvasEvenInRange ==
    /\ SizeComputed =>
        /\ EvenInRange(size.cx, MIN_SIZE_CX, MAX_SIZE_CX)
        /\ EvenInRange(size.cy, MIN_SIZE_CY, MAX_SIZE_CY)
    /\ pc = "return" => cx = size.cx /\ cy = size.cy
    /\ (updated \/ pc = "return") =>
        /\ EvenInRange(cx, MIN_SIZE_CX, MAX_SIZE_CX)
        /\ EvenInRange(cy, MIN_SIZE_CY, MAX_SIZE_CY)

\* an Update of an odd font size above the maximum, on vertical text, is
\* about to return with the width clamped to 8192
C1_Witness ==
    /\ pc = "return"
    /\ updated
    /\ vertical
    /\ face_size = 9001
    /\ measured.cx = 9001
    /\ cx = MAX_SIZE_CX

\* the texture calls of the Update in flight, without the context flag
Calls == [i \in DOMAIN gfxOps |-> <<gfxOps[i].op, gfxOps[i].h>>]

\* C2: an Update that started with a texture (the one the previous Update
\* left, of size prevCx x prevCy) and computed the same canvas size issued
\* exactly one in-place image update on that handle and kept it; one that
\* computed another size destroyed the old handle first and created the new
\* texture second.
C2_TextureReuse ==
    (pc = "return" /\ prevTex # Null) =>
        IF size.cx = prevCx /\ size.cy = prevCy
        THEN /\ Calls = << <<"update", prevTex>> >>
             /\ tex = prevTex
             /\ textures[tex] = [live |-> TRUE, w |-> cx, h |-> cy]
        ELSE /\ Len(gfxOps) = 2
             /\ Calls[1] = <<"destroy", prevTex>>
             /\ Calls[2] = <<"create", tex>>

\* a second Update produced the size of the first and updated in place
C2_Witness ==
    /\ pc = "return"
    /\ updated
    /\ prevTex # Null
    /\ size.cx = prevCx
    /\ size.cy = prevCy
    /\ Calls = << <<"update", tex>> >>

\* gs_draw_sprite takes a width or height of 0 as the texture's own
DrawnWidth(r) == IF r.cx = 0 THEN textures[r.tex].w ELSE r.cx
DrawnHeight(r) == IF r.cy = 0 THEN textures[r.tex].h ELSE r.cy

\* C3: every Render that draws, interleaved anywhere with Update outside
\* the graphics-context scope, draws a live texture with that texture's own
\* dimensions.
C3_RenderObservesCompleted ==
    lastRender.kind = "draw" =>
        /\ textures[lastRender.tex].live
        /\ DrawnWidth(lastRender) = textures[lastRender.tex].w
        /\ DrawnHeight(lastRender) = textures[lastRender.tex].h

NoLiveTexture == \A h \in Handles : ~textures[h].live

\* C4: from a failed texture creation until a later creation succeeds, tex
\* is null and no texture is live; every Render in that time draws nothing;
\* and the next Update takes the creating branch whatever size it computed.
C4_FailedCreateRetainsNothing ==
    /\ [](createFailed => (tex = Null /\ NoLiveTexture))
    /\ [][(createFailed /\ lastRender' # lastRender
                /\ lastRender'.kind # "none")
            => lastRender'.kind = "noop"]_vars
    /\ [][(createFailed /\ pc = "sync" /\ pc' # "sync")
            => pc' = "destroy"]_vars
    /\ [][(createFailed /\ pc = "destroy" /\ pc' # "destroy")
            => pc' = "create"]_vars

\* after a failed creation, the next Update computed the size already held
\* in cx/cy and is nevertheless about to call gs_texture_create
C4_Witness ==
    /\ createFailed
    /\ updated
    /\ pc = "create"
    /\ size.cx = cx
    /\ size.cy = cy
    /\ tex = Null

HeldPoints ==
    {"destroy", "create", "set_image", "leave_create", "leave_image",
     "dtor_destroy", "dtor_leave"}

\* C5: every texture create, destroy and in-place update of Update and of
\* the destructor was issued with the graphics context held, and the
\* context is held exactly between an obs_enter_graphics and the matching
\* obs_leave_graphics: never once Update or the destructor has returned.
C5_GraphicsScope ==
    /\ \A i \in DOMAIN gfxOps : gfxOps[i].held
    /\ gfx = "held" <=> pc \in HeldPoints

\* an Update whose texture creation failed, after destroying the previous
\* texture, is about to return and the context is free
C5_Witness ==
    /\ pc = "return"
    /\ gfx = "free"
    /\ createFailed
    /\ Len(gfxOps) = 2
    /\ Calls[1] = <<"destroy", prevTex>>
    /\ Calls[2] = <<"create", Null>>

EvenClamped(e, lo, hi) ==
    IF e < lo THEN lo
    ELSE IF e > hi THEN hi
    ELSE IF e % 2 = 0 THEN e ELSE e + 1

Round(n, d) == ((2 * n) + d) \div (2 * d)

\* C7 as stated: the brush's alpha byte is round(opacity * 255 / 100)
\* masked to 0xFF.
C7_AlphaRounded ==
    pc = "sync" => brush.hi = Round(opacity * 255, 100) % 256

\* C7 amended: the brush's alpha byte is opacity * 255 / 100 rounded down
\* (the integer quotient) masked to 0xFF, over the 24 colour bits.
C7_AlphaTruncated ==
    pc = "sync" =>
        /\ brush.hi \in 0..255
        /\ brush.hi * 100 <= opacity * 255
        /\ opacity * 255 < (brush.hi + 1) * 100
        /\ brush.lo = color % 16777216

\* opacity 1 gives alpha 2 (2.55 rounded down)
C7_Witness ==
    /\ pc = "sync"
    /\ opacity = 1
    /\ brush.hi = 2

EndsWithNewline(w) == w # <<>> /\ w[Len(w)] = NEWLINE

\* C8 as stated: the stored text is the supplied content with one trailing
\* newline removed if it ends with one, and the content unchanged otherwise.
C8_TrailingNewlineStripped ==
    InUpdate =>
        text = IF EndsWithNewline(to_wide(content))
               THEN pop_back(to_wide(content))
               ELSE to_wide(content)

\* C8 amended: the stored text is the supplied content (as wide characters)
\* unchanged, a trailing newline included.
C8_TextStoredUnchanged ==
    InUpdate =>
        /\ text = to_wide(content)
        /\ content = <<195, 169, 10>> => text = <<233, 10>>
        /\ content = <<97>> => text = <<97>>

\* the content "\xC3\xA9\n" is stored as U+00E9 and the newline
C8_Witness ==
    /\ pc = "calc"
    /\ content = <<195, 169, 10>>
    /\ text = <<233, NEWLINE>>

\* C9: with the font unresolved, the Update never goes through the missing
\* font and does not die, outline on or off.
C9_UnresolvedFontSkipped ==
    (InUpdate /\ font = NoFont /\ text # <<>>) =>
        (~derefNull /\ pc # "crashed")

\* C10: with extents mode on and wrap off, the canvas before quantization is
\* the measured size with the width replaced by the extents width if that is
\* larger, and only otherwise with the height replaced by the extents height
\* if that is larger; never both axes raised at once.
C10_EitherOrExtents ==
    (pc = "draw" /\ use_extents /\ ~wrap) =>
        /\ presize =
            IF extents_cx > measured.cx
            THEN [cx |-> extents_cx, cy |-> measured.cy]
            ELSE IF extents_cy > measured.cy
                 THEN [cx |-> measured.cx, cy |-> extents_cy]
                 ELSE measured
        /\ ~(presize.cx > measured.cx /\ presize.cy > measured.cy)

\* both extents exceed the measured size and only the width was raised
C10_Witness ==
    /\ pc = "draw"
    /\ use_extents
    /\ ~wrap
    /\ text # <<>>
    /\ extents_cx > measured.cx
    /\ extents_cy > measured.cy
    /\ presize = [cx |-> extents_cx, cy |-> measured.cy]

\* the textures created by the instance that are live
LiveTextures == {h \in Handles : textures[h].live}

\* C11: at most one texture of the instance is live at any time and it is
\* the one tex names (none is leaked); every destroy and every in-place
\* update is issued on a live texture (none is destroyed twice or updated
\* after its destruction); once the destructor has run no texture is live.
C11_TextureLifetime ==
    /\ Cardinality(LiveTextures) <= 1
    /\ \A h \in LiveTextures : h = tex
    /\ \A i \in DOMAIN gfxOps :
        gfxOps[i].op \in {"destroy", "update"} => gfxOps[i].live
    /\ \A i \in DOMAIN gfxOps :
        gfxOps[i].op = "create" => ~gfxOps[i].live
    /\ pc = "destroyed" => NoLiveTexture

\* after at least one Update the destructor destroyed the one live texture
C11_Witness ==
    /\ pc = "destroyed"
    /\ updated
    /\ tex # Null
    /\ Len(gfxOps) = 1
    /\ gfxOps[1].op = "destroy"
    /\ gfxOps[1].h = tex
    /\ gfxOps[1].live
    /\ NoLiveTexture

====
